---- MODULE Spec2Model ----
(***************************************************************************)
(* Model of the Result type of src/src/index.ts: the two classes Ok and    *)
(* Fail, their eleven methods, and ResultUtils.combine.                    *)
(*                                                                         *)
(* Result objects live in a heap (a sequence; an object's identity is its  *)
(* index).  A method is an operator from the heap, the receiver and the    *)
(* arguments to a completion record                                        *)
(*     [heap |-> heap after the call, out |-> outcome, calls |-> log]      *)
(* where the outcome is a returned Result reference, a returned payload or *)
(* a thrown error, and the log lists, in order, the invocations of the     *)
(* caller-supplied functions that the method made.                         *)
(***************************************************************************)
EXTENDS Integers, Sequences, FiniteSets, TLC

VARIABLES heap, last

vars == <<heap, last>>

----------------------------------------------------------------------------
(* Bounds of the model *)

MaxObjects == 3
MaxArgs == 3
MaxChain == 2

----------------------------------------------------------------------------
(* Payloads: the JavaScript values held by a Result.  Every payload has    *)
(* the same record shape so that any two of them can be compared.          *)

Null == [tag |-> "null", n |-> 0, s |-> "", items |-> <<>>]
Undefined == [tag |-> "undefined", n |-> 0, s |-> "", items |-> <<>>]
Num(k) == [tag |-> "num", n |-> k, s |-> "", items |-> <<>>]
Str(t) == [tag |-> "str", n |-> 0, s |-> t, items |-> <<>>]
List(xs) == [tag |-> "list", n |-> 0, s |-> "", items |-> xs]

(* Objects of the two classes *)
MkOk(v) == [isOk |-> TRUE, isFail |-> FALSE, value |-> v]
MkFail(e) == [isOk |-> FALSE, isFail |-> TRUE, value |-> e]

(* r instanceof Fail *)
InstanceOfFail(h, r) == h[r].isFail /\ ~h[r].isOk

----------------------------------------------------------------------------
(* Outcomes of a call *)

Ref(r) == [kind |-> "ref", ref |-> r, val |-> Undefined, cls |-> "", msg |-> ""]
Val(p) == [kind |-> "val", ref |-> 0, val |-> p, cls |-> "", msg |-> ""]
Throw(c, m) == [kind |-> "throw", ref |-> 0, val |-> Undefined, cls |-> c, msg |-> m]

Done(h, o, cs) == [heap |-> h, out |-> o, calls |-> cs]

Call(f, a) == [fn |-> f, arg |-> a]

----------------------------------------------------------------------------
(* Caller-supplied functions.  A function is named; the library sees only  *)
(* what it returns or throws.                                              *)
(*   value functions (mapFn of map and mapFails), written as a pipeline    *)
(*   <<f, g>> for the lambda x => g(f(x)):                                 *)
(*     "id"      x => x                                                    *)
(*     "double"  x => x * 2            (numbers)                           *)
(*     "raise"   x => { throw new Error("Invalid ID!") }                   *)
(*   Result functions (mapFn of flatMap):                                  *)
(*     "validate"  x => x > 0 ? new Ok(x) : new Fail("Negative") (numbers) *)
(*     "okDouble"  x => new Ok(x * 2)                          (numbers)   *)
(*     "raise"     x => { throw new Error("Invalid ID!") }                 *)
(*   thunks (fn of unwrapOrElse):                                          *)
(*     "nine"    () => 9                                                   *)
(*     "raise"   () => { throw new Error("Invalid ID!") }                  *)

AppErrorClass == "Error"
AppErrorMsg == "Invalid ID!"

Returned(p) == [threw |-> FALSE, val |-> p]
Threw == [threw |-> TRUE, val |-> Undefined]

ApplyPrim(name, p) ==
    CASE name = "id" -> Returned(p)
      [] name = "double" -> Returned(Num(2 * p.n))
      [] OTHER -> Threw

PrimAccepts(name, p) == (name = "double") => (p.tag = "num")

RECURSIVE ApplyFn(_, _)
ApplyFn(fs, p) ==
    IF fs = <<>> THEN Returned(p)
    ELSE LET a == ApplyPrim(Head(fs), p)
         IN IF a.threw THEN a ELSE ApplyFn(Tail(fs), a.val)

RECURSIVE FnAccepts(_, _)
FnAccepts(fs, p) ==
    IF fs = <<>> THEN TRUE
    ELSE /\ PrimAccepts(Head(fs), p)
         /\ LET a == ApplyPrim(Head(fs), p)
            IN IF a.threw THEN TRUE ELSE FnAccepts(Tail(fs), a.val)

ApplyFlat(h, name, p) ==
    CASE name = "validate" ->
           IF p.n > 0
           THEN Done(Append(h, MkOk(p)), Ref(Len(h) + 1), <<>>)
           ELSE Done(Append(h, MkFail(Str("Negative"))), Ref(Len(h) + 1), <<>>)
      [] name = "okDouble" ->
           Done(Append(h, MkOk(Num(2 * p.n))), Ref(Len(h) + 1), <<>>)
      [] OTHER -> Done(h, Throw(AppErrorClass, AppErrorMsg), <<>>)

FlatAccepts(name, p) == (name \in {"validate", "okDouble"}) => (p.tag = "num")

ApplyThunk(name) == IF name = "nine" THEN Returned(Num(9)) ELSE Threw

----------------------------------------------------------------------------
(* class Ok *)


(* Ok.map written to update the receiver in place and return it *)
OkMapInPlace(h, self, mapFn) ==
    LET a == ApplyFn(mapFn, h[self].value)
        cs == <<Call(mapFn, h[self].value)>>
    IN IF a.threw
       THEN Done(h, Throw(AppErrorClass, AppErrorMsg), cs)
       ELSE Done([h EXCEPT ![self].value = a.val], Ref(self), cs)

OkMap(h, self, mapFn) ==
    LET a == ApplyFn(mapFn, h[self].value)
        cs == <<Call(mapFn, h[self].value)>>
    IN IF a.threw
       THEN Done(h, Throw(AppErrorClass, AppErrorMsg), cs)
       ELSE Done(Append(h, MkOk(a.val)), Ref(Len(h) + 1), cs)

OkFlatMap(h, self, mapFn) ==
    LET d == ApplyFlat(h, mapFn, h[self].value)
    IN Done(d.heap, d.out, <<Call(<<mapFn>>, h[self].value)>>)

OkMapFails(h, self, mapFn) ==
    Done(Append(h, MkOk(h[self].value)), Ref(Len(h) + 1), <<>>)

OkFlip(h, self) ==
    Done(Append(h, MkFail(h[self].value)), Ref(Len(h) + 1), <<>>)

OkUnwrap(h, self) == Done(h, Val(h[self].value), <<>>)

OkUnwrapOr(h, self, defaultValue) == Done(h, Val(h[self].value), <<>>)


(* Ok.unwrapOrElse written to evaluate the fallback before looking at the value *)
OkUnwrapOrElseEager(h, self, fn) ==
    LET a == ApplyThunk(fn)
        cs == <<Call(<<fn>>, Undefined)>>
    IN IF a.threw
       THEN Done(h, Throw(AppErrorClass, AppErrorMsg), cs)
       ELSE Done(h, Val(h[self].value), cs)

OkUnwrapOrElse(h, self, fn) == Done(h, Val(h[self].value), <<>>)

OkExpect(h, self, message) == Done(h, Val(h[self].value), <<>>)

OkAnd(h, self, result) == Done(h, Ref(result), <<>>)

OkOr(h, self, result) == Done(h, Ref(self), <<>>)

OkUnwrapOrGetErrors(h, self) == Done(h, Val(h[self].value), <<>>)

----------------------------------------------------------------------------
(* class Fail *)

UnwrapErrorClass == "Error"
UnwrapErrorMsg == "Tried to unwrap a Fail result"


(* Fail.map written to run mapFn on the error *)
FailMapApplies(h, self, mapFn) ==
    LET a == ApplyFn(mapFn, h[self].value)
        cs == <<Call(mapFn, h[self].value)>>
    IN IF a.threw
       THEN Done(h, Throw(AppErrorClass, AppErrorMsg), cs)
       ELSE Done(Append(h, MkFail(a.val)), Ref(Len(h) + 1), cs)

FailMap(h, self, mapFn) ==
    Done(Append(h, MkFail(h[self].value)), Ref(Len(h) + 1), <<>>)


(* Fail.flatMap written to run mapFn on the error *)
FailFlatMapApplies(h, self, mapFn) ==
    LET d == ApplyFlat(h, mapFn, h[self].value)
    IN Done(d.heap, d.out, <<Call(<<mapFn>>, h[self].value)>>)

FailFlatMap(h, self, mapFn) ==
    Done(Append(h, MkFail(h[self].value)), Ref(Len(h) + 1), <<>>)

FailMapFails(h, self, mapFn) ==
    LET a == ApplyFn(mapFn, h[self].value)
        cs == <<Call(mapFn, h[self].value)>>
    IN IF a.threw
       THEN Done(h, Throw(AppErrorClass, AppErrorMsg), cs)
       ELSE Done(Append(h, MkFail(a.val)), Ref(Len(h) + 1), cs)


(* Fail.flip written to construct a Fail again *)
FailFlipKeepsFail(h, self) ==
    Done(Append(h, MkFail(h[self].value)), Ref(Len(h) + 1), <<>>)

FailFlip(h, self) ==
    Done(Append(h, MkOk(h[self].value)), Ref(Len(h) + 1), <<>>)


(* Fail.unwrap written to hand out the held error instead of throwing *)
FailUnwrapReturns(h, self) == Done(h, Val(h[self].value), <<>>)

FailUnwrap(h, self) == Done(h, Throw(UnwrapErrorClass, UnwrapErrorMsg), <<>>)

FailUnwrapOr(h, self, defaultValue) == Done(h, Val(defaultValue), <<>>)

FailUnwrapOrElse(h, self, fn) ==
    LET a == ApplyThunk(fn)
        cs == <<Call(<<fn>>, Undefined)>>
    IN IF a.threw
       THEN Done(h, Throw(AppErrorClass, AppErrorMsg), cs)
       ELSE Done(h, Val(a.val), cs)

FailExpect(h, self, message) == Done(h, Throw(UnwrapErrorClass, message), <<>>)


(* Fail.and written to return its argument *)
FailAndReturnsOther(h, self, result) == Done(h, Ref(result), <<>>)

FailAnd(h, self, result) ==
    Done(Append(h, MkFail(h[self].value)), Ref(Len(h) + 1), <<>>)

FailOr(h, self, result) == Done(h, Ref(result), <<>>)

FailUnwrapOrGetErrors(h, self) == Done(h, Val(h[self].value), <<>>)

----------------------------------------------------------------------------
(* interface IResult: a call on a Result runs the method of its class *)

Map(h, self, mapFn) ==
    IF h[self].isOk THEN OkMap(h, self, mapFn) ELSE FailMap(h, self, mapFn)

FlatMap(h, self, mapFn) ==
    IF h[self].isOk THEN OkFlatMap(h, self, mapFn) ELSE FailFlatMap(h, self, mapFn)

MapFails(h, self, mapFn) ==
    IF h[self].isOk THEN OkMapFails(h, self, mapFn) ELSE FailMapFails(h, self, mapFn)

Flip(h, self) == IF h[self].isOk THEN OkFlip(h, self) ELSE FailFlip(h, self)

Unwrap(h, self) == IF h[self].isOk THEN OkUnwrap(h, self) ELSE FailUnwrap(h, self)

UnwrapOr(h, self, defaultValue) ==
    IF h[self].isOk THEN OkUnwrapOr(h, self, defaultValue)
    ELSE FailUnwrapOr(h, self, defaultValue)

UnwrapOrElse(h, self, fn) ==
    IF h[self].isOk THEN OkUnwrapOrElse(h, self, fn) ELSE FailUnwrapOrElse(h, self, fn)

Expect(h, self, message) ==
    IF h[self].isOk THEN OkExpect(h, self, message) ELSE FailExpect(h, self, message)

And(h, self, result) ==
    IF h[self].isOk THEN OkAnd(h, self, result) ELSE FailAnd(h, self, result)

Or(h, self, result) ==
    IF h[self].isOk THEN OkOr(h, self, result) ELSE FailOr(h, self, result)

UnwrapOrGetErrors(h, self) ==
    IF h[self].isOk THEN OkUnwrapOrGetErrors(h, self) ELSE FailUnwrapOrGetErrors(h, self)

----------------------------------------------------------------------------
(* ResultUtils.combine *)


(* combine written to stop at the first Fail *)
CombineFirstFailure(h, results) ==
    LET fails == SelectSeq(results, LAMBDA r : InstanceOfFail(h, r))
    IN IF Len(fails) > 0
       THEN Done(Append(h, MkFail(List(<<h[fails[1]].value>>))), Ref(Len(h) + 1), <<>>)
       ELSE LET okValues == [i \in 1..Len(results) |->
                                UnwrapOr(h, results[i], Null).out.val]
            IN Done(Append(h, MkOk(List(okValues))), Ref(Len(h) + 1), <<>>)

(* combine written to filter the null values out of the Ok tuple *)
CombineDropsNull(h, results) ==
    LET fails == SelectSeq(results, LAMBDA r : InstanceOfFail(h, r))
    IN IF Len(fails) > 0
       THEN LET failValues == [i \in 1..Len(fails) |-> h[fails[i]].value]
            IN Done(Append(h, MkFail(List(failValues))), Ref(Len(h) + 1), <<>>)
       ELSE LET kept == SelectSeq(results, LAMBDA r : h[r].value # Null)
                okValues == [i \in 1..Len(kept) |->
                                UnwrapOr(h, kept[i], Null).out.val]
            IN Done(Append(h, MkOk(List(okValues))), Ref(Len(h) + 1), <<>>)

(* combine written to unwrap() every input *)
CombineUnwraps(h, results) ==
    LET fails == SelectSeq(results, LAMBDA r : InstanceOfFail(h, r))
    IN IF Len(fails) > 0
       THEN Unwrap(h, fails[1])
       ELSE LET okValues == [i \in 1..Len(results) |->
                                Unwrap(h, results[i]).out.val]
            IN Done(Append(h, MkOk(List(okValues))), Ref(Len(h) + 1), <<>>)

Combine(h, results) ==
    LET fails == SelectSeq(results, LAMBDA r : InstanceOfFail(h, r))
    IN IF Len(fails) > 0
       THEN LET failValues == [i \in 1..Len(fails) |-> h[fails[i]].value]
            IN Done(Append(h, MkFail(List(failValues))), Ref(Len(h) + 1), <<>>)
       ELSE LET okValues == [i \in 1..Len(results) |->
                                UnwrapOr(h, results[i], Null).out.val]
            IN Done(Append(h, MkOk(List(okValues))), Ref(Len(h) + 1), <<>>)

(* Caller expressions that chain calls on the returned Result.  The steps  *)
(* run in order; a step that throws ends the whole expression.             *)
(*   r.flatMap(f1).flatMap(f2)...flatMap(fn)                               *)
RECURSIVE ChainFrom(_, _)
ChainFrom(c, fns) ==
    IF fns = <<>> \/ c.out.kind # "ref" THEN c
    ELSE LET d == FlatMap(c.heap, c.out.ref, Head(fns))
         IN ChainFrom([heap |-> d.heap, out |-> d.out,
                       calls |-> c.calls \o d.calls,
                       steps |-> Append(c.steps, d.out)],
                      Tail(fns))

FlatMapChain(h, self, fns) ==
    ChainFrom([heap |-> h, out |-> Ref(self), calls |-> <<>>, steps |-> <<>>], fns)

(*   r.map(f).map(g)                                                       *)
MapMap(h, self, f, g) ==
    LET d1 == Map(h, self, f)
    IN IF d1.out.kind # "ref"
       THEN [heap |-> d1.heap, out |-> d1.out, calls |-> d1.calls,
             steps |-> <<d1.out>>]
       ELSE LET d2 == Map(d1.heap, d1.out.ref, g)
            IN [heap |-> d2.heap, out |-> d2.out, calls |-> d1.calls \o d2.calls,
                steps |-> <<d1.out, d2.out>>]

(*   r.flip().flip()                                                       *)
FlipFlip(h, self) ==
    LET d1 == Flip(h, self)
        d2 == Flip(d1.heap, d1.out.ref)
    IN [heap |-> d2.heap, out |-> d2.out, calls |-> d1.calls \o d2.calls,
        steps |-> <<d1.out, d2.out>>]

----------------------------------------------------------------------------
(* Inputs of the calls *)

Values == {Null, Num(0), Num(1)}
Errors == {Str("a"), Str("b")}
PrimFns == {"id", "double", "raise"}
MapFns == {<<f>> : f \in PrimFns} \cup {<<f, g>> : f \in PrimFns, g \in PrimFns}
FlatFns == {"validate", "okDouble", "raise"}
Thunks == {"nine", "raise"}
Defaults == {Null, Num(9)}
Messages == {"value must be present"}

Objects == 1..Len(heap)

(* argument lists of combine and of a flatMap chain *)
ArgLists == UNION {[1..k -> Objects] : k \in 0..MaxArgs}
FnLists == UNION {[1..k -> FlatFns] : k \in 1..MaxChain}

(* every flatMap step of the chain is given a value its function accepts *)
RECURSIVE ChainAccepts(_, _, _)
ChainAccepts(h, self, fns) ==
    IF fns = <<>> THEN TRUE
    ELSE /\ h[self].isOk => FlatAccepts(Head(fns), h[self].value)
         /\ LET d == FlatMap(h, self, Head(fns))
            IN IF d.out.kind = "ref"
               THEN ChainAccepts(d.heap, d.out.ref, Tail(fns))
               ELSE TRUE

----------------------------------------------------------------------------
(* State: the heap of live Result objects and the record of the call whose *)
(* outcome the caller holds.  The module is synchronous: the caller makes  *)
(* a call, takes its outcome (Return), and only then makes the next call.  *)
(* The caller keeps the Results it constructs, at most MaxObjects of them; *)
(* the Results a call created are dropped when the caller lets go of the   *)
(* outcome.                                                                *)

NoCall ==
    [op |-> "none", self |-> 0, other |-> 0, fn |-> <<>>, dflt |-> Undefined,
     msg |-> "", inputs |-> <<>>, pre |-> <<>>, out |-> Val(Undefined),
     calls |-> <<>>, steps |-> <<>>]

(* pre: the heap as it was when the call was made *)
Called(op, self, d) ==
    [NoCall EXCEPT !.op = op, !.self = self, !.pre = heap,
                   !.out = d.out, !.calls = d.calls]

Init ==
    /\ heap = <<>>
    /\ last = NoCall

Idle == last.op = "none"

Commit(d, rec) ==
    /\ heap' = d.heap
    /\ last' = rec

NewOk(v) ==
    /\ Idle
    /\ LET d == Done(Append(heap, MkOk(v)), Ref(Len(heap) + 1), <<>>)
       IN /\ Len(heap) < MaxObjects
          /\ Commit(d, Called("newOk", 0, d))

NewFail(e) ==
    /\ Idle
    /\ LET d == Done(Append(heap, MkFail(e)), Ref(Len(heap) + 1), <<>>)
       IN /\ Len(heap) < MaxObjects
          /\ Commit(d, Called("newFail", 0, d))

DoMap(self, mapFn) ==
    /\ Idle
    /\ LET d == Map(heap, self, mapFn)
       IN /\ heap[self].isOk => FnAccepts(mapFn, heap[self].value)
          /\ Commit(d, [Called("map", self, d) EXCEPT !.fn = mapFn])

DoMapMap(self, f, g) ==
    /\ Idle
    /\ LET d == MapMap(heap, self, <<f>>, <<g>>)
       IN /\ heap[self].isOk => FnAccepts(<<f, g>>, heap[self].value)
          /\ Commit(d, [Called("mapMap", self, d) EXCEPT !.fn = <<f, g>>,
                                                          !.steps = d.steps])

DoFlatMap(self, mapFn) ==
    /\ Idle
    /\ LET d == FlatMap(heap, self, mapFn)
       IN /\ heap[self].isOk => FlatAccepts(mapFn, heap[self].value)
          /\ Commit(d, [Called("flatMap", self, d) EXCEPT !.fn = <<mapFn>>])

DoFlatMapChain(self, fns) ==
    /\ Idle
    /\ LET d == FlatMapChain(heap, self, fns)
       IN /\ ChainAccepts(heap, self, fns)
          /\ Commit(d, [Called("flatMapChain", self, d) EXCEPT !.fn = fns,
                                                                !.steps = d.steps])

DoMapFails(self, mapFn) ==
    /\ Idle
    /\ LET d == MapFails(heap, self, mapFn)
       IN /\ heap[self].isFail => FnAccepts(mapFn, heap[self].value)
          /\ Commit(d, [Called("mapFails", self, d) EXCEPT !.fn = mapFn])

DoFlip(self) ==
    /\ Idle
    /\ LET d == Flip(heap, self)
       IN Commit(d, Called("flip", self, d))

DoFlipFlip(self) ==
    /\ Idle
    /\ LET d == FlipFlip(heap, self)
       IN Commit(d, [Called("flipFlip", self, d) EXCEPT !.steps = d.steps])

DoUnwrap(self) ==
    /\ Idle
    /\ LET d == Unwrap(heap, self)
       IN Commit(d, Called("unwrap", self, d))

DoUnwrapOr(self, defaultValue) ==
    /\ Idle
    /\ LET d == UnwrapOr(heap, self, defaultValue)
       IN Commit(d, [Called("unwrapOr", self, d) EXCEPT !.dflt = defaultValue])

DoUnwrapOrElse(self, fn) ==
    /\ Idle
    /\ LET d == UnwrapOrElse(heap, self, fn)
       IN Commit(d, [Called("unwrapOrElse", self, d) EXCEPT !.fn = <<fn>>])

DoExpect(self, message) ==
    /\ Idle
    /\ LET d == Expect(heap, self, message)
       IN Commit(d, [Called("expect", self, d) EXCEPT !.msg = message])

DoAnd(self, result) ==
    /\ Idle
    /\ LET d == And(heap, self, result)
       IN Commit(d, [Called("and", self, d) EXCEPT !.other = result])

DoOr(self, result) ==
    /\ Idle
    /\ LET d == Or(heap, self, result)
       IN Commit(d, [Called("or", self, d) EXCEPT !.other = result])

DoUnwrapOrGetErrors(self) ==
    /\ Idle
    /\ LET d == UnwrapOrGetErrors(heap, self)
       IN Commit(d, Called("unwrapOrGetErrors", self, d))

DoCombine(results) ==
    /\ Idle
    /\ LET d == Combine(heap, results)
       IN Commit(d, [Called("combine", 0, d) EXCEPT !.inputs = results])

Return ==
    /\ last.op # "none"
    /\ heap' = IF last.op \in {"newOk", "newFail"}
               THEN heap
               ELSE SubSeq(heap, 1, Len(last.pre))
    /\ last' = NoCall

Next ==
    \/ \E v \in Values : NewOk(v)
    \/ \E e \in Errors : NewFail(e)
    \/ \E self \in Objects, mapFn \in MapFns : DoMap(self, mapFn)
    \/ \E self \in Objects, f \in PrimFns, g \in PrimFns : DoMapMap(self, f, g)
    \/ \E self \in Objects, mapFn \in FlatFns : DoFlatMap(self, mapFn)
    \/ \E self \in Objects, fns \in FnLists : DoFlatMapChain(self, fns)
    \/ \E self \in Objects, mapFn \in MapFns : DoMapFails(self, mapFn)
    \/ \E self \in Objects : DoFlip(self)
    \/ \E self \in Objects : DoFlipFlip(self)
    \/ \E self \in Objects : DoUnwrap(self)
    \/ \E self \in Objects, defaultValue \in Defaults : DoUnwrapOr(self, defaultValue)
    \/ \E self \in Objects, fn \in Thunks : DoUnwrapOrElse(self, fn)
    \/ \E self \in Objects, message \in Messages : DoExpect(self, message)
    \/ \E self \in Objects, result \in Objects : DoAnd(self, result)
    \/ \E self \in Objects, result \in Objects : DoOr(self, result)
    \/ \E self \in Objects : DoUnwrapOrGetErrors(self)
    \/ \E results \in ArgLists : DoCombine(results)
    \/ Return

Spec == Init /\ [][Next]_vars

----------------------------------------------------------------------------
(* Properties.  In a state that follows a call, last.pre is the heap the   *)
(* call was made on, heap the heap it left, last.out its outcome.          *)

(* the receiver as it was when the call was made *)
Recv == last.pre[last.self]
(* the Result the call returned *)
OutObj == heap[last.out.ref]

SuppliedFnThrows == \E i \in 1..Len(last.fn) : last.fn[i] = "raise"

RECURSIVE ErrorsInOrder(_, _)
ErrorsInOrder(h, ins) ==
    IF ins = <<>> THEN <<>>
    ELSE (IF h[Head(ins)].isFail THEN <<h[Head(ins)].value>> ELSE <<>>)
         \o ErrorsInOrder(h, Tail(ins))

(* C1: combine returns a Fail exactly when some input is a Fail, and then  *)
(* its payload is the list of the errors of the failing inputs, one per    *)
(* failing input, in input order, with nothing from the Ok inputs.         *)
CombineCollectsAllFailures ==
    last.op = "combine" =>
        /\ last.out.kind = "ref"
        /\ OutObj.isFail <=>
               (\E i \in 1..Len(last.inputs) : last.pre[last.inputs[i]].isFail)
        /\ OutObj.isFail =>
               OutObj = MkFail(List(ErrorsInOrder(last.pre, last.inputs)))

CombineFailOkFailReached ==
    /\ last.op = "combine"
    /\ Len(last.inputs) = 3
    /\ last.pre[last.inputs[1]] = MkFail(Str("a"))
    /\ last.pre[last.inputs[2]] = MkOk(Num(1))
    /\ last.pre[last.inputs[3]] = MkFail(Str("b"))
    /\ OutObj = MkFail(List(<<Str("a"), Str("b")>>))

(* C2: when every input is an Ok, combine returns an Ok whose payload is   *)
(* the tuple of the inputs' values, each at the index of its input, null   *)
(* values included; with no input it is the empty tuple.                   *)
CombineKeepsEveryValue ==
    (/\ last.op = "combine"
     /\ \A i \in 1..Len(last.inputs) : last.pre[last.inputs[i]].isOk) =>
        /\ last.out.kind = "ref"
        /\ OutObj.isOk /\ ~OutObj.isFail
        /\ OutObj.value.tag = "list"
        /\ Len(OutObj.value.items) = Len(last.inputs)
        /\ \A i \in 1..Len(last.inputs) :
               OutObj.value.items[i] = last.pre[last.inputs[i]].value

CombineAllOkWithNullReached ==
    /\ last.op = "combine"
    /\ Len(last.inputs) >= 2
    /\ \A i \in 1..Len(last.inputs) : last.pre[last.inputs[i]].isOk
    /\ last.pre[last.inputs[1]].value = Null
    /\ last.pre[last.inputs[2]].value # Null
    /\ OutObj.isOk

(* C3 as stated: unwrap() on a Fail raises an UnwrapOnFailure error, of a  *)
(* kind other than the errors application code throws.                     *)
UnwrapRaisesUnwrapOnFailure ==
    (last.op = "unwrap" /\ Recv.isFail) =>
        /\ last.out.kind = "throw"
        /\ last.out.cls = "UnwrapOnFailure"
        /\ last.out.cls # AppErrorClass

(* C3, amended: unwrap() on a Fail never returns a value and constructs no *)
(* Result; it throws a plain Error with the message "Tried to unwrap a     *)
(* Fail result".  unwrap() on an Ok returns the held value.                *)
UnwrapThrowsPlainError ==
    last.op = "unwrap" =>
        IF Recv.isFail
        THEN /\ last.out = Throw("Error", "Tried to unwrap a Fail result")
             /\ heap = last.pre
        ELSE last.out = Val(Recv.value)

UnwrapOnFailReached ==
    /\ last.op = "unwrap"
    /\ Recv.isFail
    /\ last.out.kind = "throw"

(* C4: given caller-supplied functions that return normally, a call raises *)
(* only if it is unwrap() or expect() on a Fail; every other call, combine *)
(* included, returns a value or a live Result.                             *)
OnlyUnwrapAndExpectRaise ==
    (last.op # "none" /\ ~SuppliedFnThrows) =>
        /\ \/ last.out.kind \in {"ref", "val"}
           \/ /\ last.out.kind = "throw"
              /\ last.op \in {"unwrap", "expect"}
              /\ Recv.isFail
        /\ last.out.kind = "ref" => last.out.ref \in 1..Len(heap)

CombineOfMixReturned ==
    /\ last.op = "combine"
    /\ \E i \in 1..Len(last.inputs) : last.pre[last.inputs[i]].isFail
    /\ \E i \in 1..Len(last.inputs) : last.pre[last.inputs[i]].isOk
    /\ last.out.kind = "ref"

(* C5: flip() returns a Result of the other variant with the same payload, *)
(* and r.flip().flip() has the variant and the payload of r.               *)
FlipSwapsAndIsInvolutive ==
    /\ last.op = "flip" =>
           /\ last.out.kind = "ref"
           /\ OutObj.isOk = ~Recv.isOk
           /\ OutObj.isFail = ~Recv.isFail
           /\ OutObj.value = Recv.value
    /\ last.op = "flipFlip" =>
           /\ last.out.kind = "ref"
           /\ heap[last.steps[1].ref].isOk = ~Recv.isOk
           /\ OutObj = Recv

FlipFlipOfFailReached ==
    /\ last.op = "flipFlip"
    /\ Recv.isFail
    /\ heap[last.steps[1].ref].isOk
    /\ OutObj.isFail

(* C6: map(f) on an Ok(v) calls f once, on v, and returns Ok(f(v)); on a   *)
(* Fail(e) it returns Fail(e) and never calls f.  map(id) gives back the   *)
(* same variant and payload, and r.map(f).map(g) agrees with               *)
(* r.map(x => g(f(x))).                                                    *)
MapAppliesOnOkOnly ==
    /\ last.op = "map" =>
           IF Recv.isOk
           THEN /\ last.calls = <<Call(last.fn, Recv.value)>>
                /\ ~SuppliedFnThrows =>
                       /\ last.out.kind = "ref"
                       /\ OutObj = MkOk(ApplyFn(last.fn, Recv.value).val)
                /\ last.fn = <<"id">> => OutObj = Recv
           ELSE /\ last.calls = <<>>
                /\ last.out.kind = "ref"
                /\ OutObj = MkFail(Recv.value)
                /\ OutObj = Recv
    /\ last.op = "mapMap" =>
           LET d == Map(last.pre, last.self, last.fn)
           IN IF d.out.kind = "ref"
              THEN last.out.kind = "ref" /\ OutObj = d.heap[d.out.ref]
              ELSE last.out.kind = d.out.kind

MapMapDoubleTwiceReached ==
    /\ last.op = "mapMap"
    /\ last.fn = <<"double", "double">>
    /\ Recv = MkOk(Num(1))
    /\ OutObj = MkOk(Num(4))
    /\ Len(last.calls) = 2

(* C7: r.and(other) is other when r is an Ok and Fail(e) when r is a       *)
(* Fail(e); r.or(other) is r when r is an Ok and other when r is a Fail.   *)
AndOrSelect ==
    /\ last.op = "and" =>
           /\ last.out.kind = "ref"
           /\ OutObj = IF Recv.isOk THEN last.pre[last.other] ELSE MkFail(Recv.value)
    /\ last.op = "or" =>
           /\ last.out.kind = "ref"
           /\ OutObj = IF Recv.isOk THEN Recv ELSE last.pre[last.other]

FailAndOkReached ==
    /\ last.op = "and"
    /\ Recv.isFail
    /\ last.pre[last.other].isOk
    /\ OutObj.isFail

(* C8: unwrapOrElse(f) on an Ok returns the value and never calls f; on a  *)
(* Fail it calls f exactly once and returns what f returns.                *)
UnwrapOrElseCallsOnFailOnly ==
    last.op = "unwrapOrElse" =>
        IF Recv.isOk
        THEN /\ last.calls = <<>>
             /\ last.out = Val(Recv.value)
        ELSE /\ last.calls = <<Call(last.fn, Undefined)>>
             /\ last.fn = <<"nine">> => last.out = Val(Num(9))
             /\ last.fn = <<"raise">> => last.out = Throw(AppErrorClass, AppErrorMsg)

UnwrapOrElseOnBothReached ==
    /\ last.op = "unwrapOrElse"
    /\ Recv.isFail
    /\ last.fn = <<"nine">>
    /\ last.out = Val(Num(9))
    /\ \E r \in 1..Len(last.pre) : last.pre[r].isOk

(* C9: a call leaves every Result that existed when it was made, receiver  *)
(* and arguments included, with the variant and the payload it had; and    *)
(* exactly one of isOk, isFail holds of every Result.                      *)
ResultsAreImmutable ==
    /\ \A r \in 1..Len(heap) : heap[r].isOk # heap[r].isFail
    /\ last.op # "none" =>
           /\ Len(last.pre) <= Len(heap)
           /\ \A r \in 1..Len(last.pre) : heap[r] = last.pre[r]

MapDoubleOnOkOneReached ==
    /\ last.op = "map"
    /\ last.fn = <<"double">>
    /\ Recv = MkOk(Num(1))
    /\ heap[last.self] = MkOk(Num(1))
    /\ OutObj = MkOk(Num(2))

(* what the Result function named f returns for the value p *)
FlatResult(f, p) == ApplyFlat(<<>>, f, p).heap[1]

(* C10: in r.flatMap(f1)...flatMap(fn) with functions that return, a step  *)
(* on an Ok returns what its function returns for the value; a step on a   *)
(* Fail calls nothing and returns a Fail with the same error; so after the *)
(* first Fail no later function is called and the final result is that     *)
(* Fail, and with no Fail it is the last function's Result.                *)
FlatMapChainShortCircuits ==
    (last.op = "flatMapChain" /\ last.out.kind = "ref") =>
        LET n == Len(last.fn)
            cur(i) == IF i = 0 THEN Recv ELSE heap[last.steps[i].ref]
            called == SelectSeq([i \in 1..n |-> i], LAMBDA i : cur(i - 1).isOk)
            failed == {i \in 0..n : cur(i).isFail}
        IN /\ Len(last.steps) = n
           /\ \A i \in 1..n :
                  cur(i) = IF cur(i - 1).isOk
                           THEN FlatResult(last.fn[i], cur(i - 1).value)
                           ELSE MkFail(cur(i - 1).value)
           /\ last.calls = [k \in 1..Len(called) |->
                               Call(<<last.fn[called[k]]>>, cur(called[k] - 1).value)]
           /\ last.out = last.steps[n]
           /\ failed # {} =>
                  LET j == CHOOSE i \in failed : \A k \in failed : i <= k
                  IN /\ OutObj = MkFail(cur(j).value)
                     /\ \A k \in 1..Len(called) : called[k] <= j

FlatMapChainFailsMidwayReached ==
    /\ last.op = "flatMapChain"
    /\ Len(last.fn) >= 2
    /\ Recv.isOk
    /\ last.out.kind = "ref"
    /\ heap[last.steps[1].ref] = MkFail(Str("Negative"))
    /\ Len(last.calls) = 1
    /\ OutObj = MkFail(Str("Negative"))

====
